---------------------------- MODULE Spec2Model ----------------------------
(***************************************************************************)
(* A model of src/ImageProcessor.py: the image preparer (resize_image),    *)
(* the inference client (send_request, handle_response) and the two domain *)
(* interpreters (process_cats, process_ticket, calculate_totals).          *)
(*                                                                         *)
(* Texts (HTTP bodies, Python str values) are sequences of symbols: the    *)
(* JSON punctuation characters, the quote, the backslash, the space, the   *)
(* decimal digits, and whole words (a run of letters is one symbol).       *)
(* Python values are records tagged with the name of their Python type.    *)
(* Numbers are the non-negative integers: amounts are counted in whole     *)
(* units, so floating-point rounding is outside the model.                 *)
(***************************************************************************)
EXTENDS Integers, Sequences, FiniteSets, TLC

(***************************************************************************)
(* Python values.                                                          *)
(***************************************************************************)
\* Every value carries the same fields, so that any two values compare:
\* n the number (int, bool as 0/1), s the text (str), xs the items (list)
\* or the values (dict), ks the keys of a dict, in insertion order.
PyValue(t, n, s, ks, xs) == [t |-> t, n |-> n, s |-> s, ks |-> ks, xs |-> xs]
PyStr(s)       == PyValue("str", 0, s, <<>>, <<>>)
PyInt(n)       == PyValue("int", n, <<>>, <<>>, <<>>)
PyBool(b)      == PyValue("bool", IF b THEN 1 ELSE 0, <<>>, <<>>, <<>>)
PyNone         == PyValue("NoneType", 0, <<>>, <<>>, <<>>)
PyList(xs)     == PyValue("list", 0, <<>>, <<>>, xs)
PyDict(ks, xs) == PyValue("dict", 0, <<>>, ks, xs)
EmptyDict      == PyDict(<<>>, <<>>)

QUOTE     == "\""
BACKSLASH == "\\"
SPACE     == " "
Digits    == <<"0", "1", "2", "3", "4", "5", "6", "7", "8", "9">>

RECURSIVE DigitValue(_, _)
DigitValue(c, k) ==
    IF k > 10 THEN -1
    ELSE IF Digits[k] = c THEN k - 1
    ELSE DigitValue(c, k + 1)

IsDigit(c) == DigitValue(c, 1) >= 0

(***************************************************************************)
(* dict operations                                                         *)
(***************************************************************************)
RECURSIVE KeyIndex(_, _, _)
\* position of key k among the keys ks at or after position i, 0 if absent
KeyIndex(ks, k, i) ==
    IF i > Len(ks) THEN 0
    ELSE IF ks[i] = k THEN i
    ELSE KeyIndex(ks, k, i + 1)

HasKey(d, k) == KeyIndex(d.ks, k, 1) > 0

\* d[k] for a key that is present
DictItem(d, k) == d.xs[KeyIndex(d.ks, k, 1)]

\* d.get(k, default)
DictGet(d, k, default) == IF HasKey(d, k) THEN DictItem(d, k) ELSE default

\* d[k] = x: an existing key keeps its position, a new key goes last
DictSet(d, k, x) ==
    IF HasKey(d, k)
    THEN PyDict(d.ks, [d.xs EXCEPT ![KeyIndex(d.ks, k, 1)] = x])
    ELSE PyDict(Append(d.ks, k), Append(d.xs, x))

(***************************************************************************)
(* json.dumps: the encoder, with Python's default separators ", " and ": " *)
(***************************************************************************)
RECURSIVE EncodeNat(_)
EncodeNat(n) ==
    IF n < 10 THEN <<Digits[n + 1]>>
    ELSE EncodeNat(n \div 10) \o <<Digits[(n % 10) + 1]>>

EscapeChar(c) == IF c \in {QUOTE, BACKSLASH} THEN <<BACKSLASH, c>> ELSE <<c>>

RECURSIVE EscapeText(_)
\* the content of a string literal: every quote and backslash of s gets a
\* backslash (the text is split in halves to keep the recursion shallow)
EscapeText(s) ==
    IF Len(s) = 0 THEN <<>>
    ELSE IF Len(s) = 1 THEN EscapeChar(s[1])
    ELSE LET m == Len(s) \div 2
         IN  EscapeText(SubSeq(s, 1, m)) \o EscapeText(SubSeq(s, m + 1, Len(s)))

EncodeString(s) == <<QUOTE>> \o EscapeText(s) \o <<QUOTE>>

RECURSIVE dumps(_)
RECURSIVE EncodeItems(_, _)
RECURSIVE EncodePairs(_, _, _)
EncodeItems(xs, i) ==
    IF i > Len(xs) THEN <<>>
    ELSE (IF i > 1 THEN <<",", SPACE>> ELSE <<>>)
         \o dumps(xs[i]) \o EncodeItems(xs, i + 1)

EncodePairs(ks, xs, i) ==
    IF i > Len(ks) THEN <<>>
    ELSE (IF i > 1 THEN <<",", SPACE>> ELSE <<>>)
         \o EncodeString(ks[i]) \o <<":", SPACE>> \o dumps(xs[i])
         \o EncodePairs(ks, xs, i + 1)

dumps(x) ==
    CASE x.t = "str"      -> EncodeString(x.s)
      [] x.t = "int"      -> EncodeNat(x.n)
      [] x.t = "bool"     -> IF x.n = 1 THEN <<"true">> ELSE <<"false">>
      [] x.t = "NoneType" -> <<"null">>
      [] x.t = "list"     -> <<"[">> \o EncodeItems(x.xs, 1) \o <<"]">>
      [] x.t = "dict"     -> <<"{">> \o EncodePairs(x.ks, x.xs, 1) \o <<"}">>

(***************************************************************************)
(* json.loads: the decoder.  A parse step returns [ok, v, i]: whether it   *)
(* succeeded, the value, and the position after it.  A failure is Python's *)
(* json.JSONDecodeError.                                                   *)
(***************************************************************************)
ParseFail == [ok |-> FALSE, v |-> PyNone, i |-> 0]
ParseOk(x, i) == [ok |-> TRUE, v |-> x, i |-> i]

At(s, i) == IF i >= 1 /\ i <= Len(s) THEN s[i] ELSE "<eof>"

RECURSIVE SkipWs(_, _)
SkipWs(s, i) == IF At(s, i) = SPACE THEN SkipWs(s, i + 1) ELSE i

RECURSIVE Terminator(_, _)
\* the first position at or after i that holds a quote or a backslash,
\* Len(s) + 1 if there is none
Terminator(s, i) ==
    IF i > Len(s) THEN Len(s) + 1
    ELSE IF s[i] \in {QUOTE, BACKSLASH} THEN i
    ELSE Terminator(s, i + 1)

RECURSIVE ScanString(_, _, _)
\* the string literal whose content starts at position i (after the opening
\* quote): chunks of plain characters, each ended by the closing quote or by
\* a backslash that escapes the character after it
ScanString(s, i, acc) ==
    LET j     == Terminator(s, i)
        chunk == acc \o SubSeq(s, i, j - 1)
    IN  IF j > Len(s) THEN ParseFail
        ELSE IF s[j] = QUOTE THEN ParseOk(PyStr(chunk), j + 1)
        ELSE IF At(s, j + 1) \in {QUOTE, BACKSLASH}
        THEN ScanString(s, j + 2, Append(chunk, s[j + 1]))
        ELSE ParseFail

RECURSIVE ScanDigits(_, _, _)
ScanDigits(s, i, n) ==
    IF IsDigit(At(s, i))
    THEN ScanDigits(s, i + 1, 10 * n + DigitValue(s[i], 1))
    ELSE ParseOk(PyInt(n), i)

\* an integer: "0", or a non-zero digit followed by digits
ScanNumber(s, i) ==
    IF s[i] = "0" THEN ParseOk(PyInt(0), i + 1)
    ELSE ScanDigits(s, i, 0)

RECURSIVE ParseValue(_, _)
RECURSIVE ParseItems(_, _, _)
RECURSIVE ParsePairs(_, _, _)

\* the items of an array from position i (at an item) on
ParseItems(s, i, acc) ==
    LET r == ParseValue(s, i)
        j == SkipWs(s, r.i)
    IN  IF ~r.ok THEN ParseFail
        ELSE IF At(s, j) = "," THEN ParseItems(s, SkipWs(s, j + 1), Append(acc, r.v))
        ELSE IF At(s, j) = "]" THEN ParseOk(PyList(Append(acc, r.v)), j + 1)
        ELSE ParseFail

\* the pairs of an object from position i (at a key) on; a repeated key
\* keeps its first position and takes the last value
ParsePairs(s, i, acc) ==
    IF At(s, i) # QUOTE THEN ParseFail
    ELSE
    LET k == ScanString(s, i + 1, <<>>)
        c == SkipWs(s, k.i)
        r == ParseValue(s, SkipWs(s, c + 1))
        j == SkipWs(s, r.i)
        d == DictSet(acc, k.v.s, r.v)
    IN  IF ~k.ok \/ At(s, c) # ":" THEN ParseFail
        ELSE IF ~r.ok THEN ParseFail
        ELSE IF At(s, j) = "," THEN ParsePairs(s, SkipWs(s, j + 1), d)
        ELSE IF At(s, j) = "}" THEN ParseOk(d, j + 1)
        ELSE ParseFail

ParseValue(s, i) ==
    LET c == At(s, i)
    IN  CASE c = QUOTE ->
               ScanString(s, i + 1, <<>>)
          [] c = "{" ->
               LET j == SkipWs(s, i + 1)
               IN  IF At(s, j) = "}" THEN ParseOk(EmptyDict, j + 1)
                   ELSE ParsePairs(s, j, EmptyDict)
          [] c = "[" ->
               LET j == SkipWs(s, i + 1)
               IN  IF At(s, j) = "]" THEN ParseOk(PyList(<<>>), j + 1)
                   ELSE ParseItems(s, j, <<>>)
          [] c = "null"  -> ParseOk(PyNone, i + 1)
          [] c = "true"  -> ParseOk(PyBool(TRUE), i + 1)
          [] c = "false" -> ParseOk(PyBool(FALSE), i + 1)
          [] IsDigit(c)  -> ScanNumber(s, i)
          [] OTHER       -> ParseFail

\* json.loads(s): one value, white space around it, and nothing else
loads(s) ==
    LET r == ParseValue(s, SkipWs(s, 1))
    IN  IF r.ok /\ SkipWs(s, r.i) = Len(s) + 1 THEN r ELSE ParseFail

(***************************************************************************)
(* Image preparer                                                          *)
(***************************************************************************)
max_pixels == <<1120, 1120>>

Abs(n) == IF n < 0 THEN -n ELSE n
Max(a, b) == IF a >= b THEN a ELSE b
Floor(a, b) == a \div b
Ceil(a, b) == IF a % b = 0 THEN a \div b ELSE (a \div b) + 1

\* Pillow's round_aspect: max(min(floor, ceil, key = distance of the aspect
\* ratios), 1).  The distances are fractions ka/da (floor) and kb/db (ceil),
\* compared exactly; Pillow compares them in floating point, where an exact
\* tie may fall either way, so a tie yields both candidates.
round_aspect(fl, ce, ka, da, kb, db) ==
    { Max(n, 1) : n \in {m \in {fl, ce} :
                            \/ m = fl /\ ka * db <= kb * da
                            \/ m = ce /\ kb * da <= ka * db} }

\* Image.thumbnail(box): the sizes an image of size <<w, h>> may get, as
\* Pillow computes them from version 9.1 on (the first with
\* Image.Resampling, which line 31 names).
thumbnail(size, box) ==
    LET w == size[1]
        h == size[2]
        x == box[1]
        y == box[2]
    IN  IF x >= w /\ y >= h THEN {size}
        ELSE IF x * h >= w * y
        THEN \* x / y >= aspect: the height is clamped, the width follows
             LET fl == Floor(y * w, h)
                 ce == Ceil(y * w, h)
             IN  { <<n, y>> : n \in round_aspect(fl, ce,
                                       Abs(w * y - fl * h), 1,
                                       Abs(w * y - ce * h), 1) }
        ELSE \* the width is clamped, the height follows; the key of 0 is 0
             LET fl == Floor(x * h, w)
                 ce == Ceil(x * h, w)
             IN  { <<x, n>> : n \in
                     IF fl = 0 THEN {1}
                     ELSE round_aspect(fl, ce,
                                       Abs(w * fl - x * h), fl,
                                       Abs(w * ce - x * h), ce) }

\* resize_image with "and" for "or" in its test
resize_image_and(size) ==
    IF size[1] > max_pixels[1] /\ size[2] > max_pixels[2]
    THEN thumbnail(size, max_pixels)
    ELSE {size}

\* resize_image calling Image.resize(max_pixels) on every image
resize_image_resize(size) == {max_pixels}

\* resize_image: the sizes the returned image may have.
resize_image(size) ==
    IF size[1] > max_pixels[1] \/ size[2] > max_pixels[2]
    THEN thumbnail(size, max_pixels)
    ELSE {size}

(***************************************************************************)
(* Inference client                                                        *)
(***************************************************************************)
HTTP_OK == 200

Return(x)  == [raised |-> "", value |-> x]
Raise(exc) == [raised |-> exc, value |-> PyNone]

KeyResponse == <<"response">>
KeyError    == <<"error">>
KeyDetails  == <<"details">>

\* "Respuesta JSON no valida" (the source writes the accented word)
InvalidJson == <<"Respuesta", SPACE, "JSON", SPACE, "no", SPACE, "valida">>
InvalidNestedJson ==
    InvalidJson \o <<SPACE, "(", "anidada", SPACE, "como", SPACE, "texto", ")">>

ErrorRecord(x) == PyDict(<<KeyError>>, <<x>>)
HttpError(status, text) ==
    PyDict(<<KeyError, KeyDetails>>, <<PyInt(status), PyStr(text)>>)

\* handle_response decoding a text found under "response"
handle_response_decode(status_code, text) ==
    IF status_code = HTTP_OK
    THEN LET response_json == loads(text)
         IN  IF ~response_json.ok
             THEN Return(ErrorRecord(PyStr(InvalidJson)))
             ELSE IF response_json.v.t = "str"
             THEN LET nested == loads(response_json.v.s)
                  IN  IF nested.ok
                      THEN Return(nested.v)
                      ELSE Return(ErrorRecord(PyStr(InvalidNestedJson)))
             ELSE IF response_json.v.t = "dict"
             THEN LET x == DictGet(response_json.v, KeyResponse, response_json.v)
                  IN  IF x.t = "str" /\ loads(x.s).ok
                      THEN Return(loads(x.s).v)
                      ELSE Return(x)
             ELSE Raise("AttributeError")
    ELSE Return(HttpError(status_code, text))

\* handle_response without the test of the status
handle_response_any_status(status_code, text) ==
    LET response_json == loads(text)
    IN  IF ~response_json.ok
        THEN Return(ErrorRecord(PyStr(InvalidJson)))
        ELSE IF response_json.v.t = "str"
        THEN LET nested == loads(response_json.v.s)
             IN  IF nested.ok
                 THEN Return(nested.v)
                 ELSE Return(ErrorRecord(PyStr(InvalidNestedJson)))
        ELSE IF response_json.v.t = "dict"
        THEN Return(DictGet(response_json.v, KeyResponse, response_json.v))
        ELSE Raise("AttributeError")

\* handle_response returning the parsed object without looking for "response"
handle_response_no_get(status_code, text) ==
    IF status_code = HTTP_OK
    THEN LET response_json == loads(text)
         IN  IF ~response_json.ok
             THEN Return(ErrorRecord(PyStr(InvalidJson)))
             ELSE IF response_json.v.t = "str"
             THEN LET nested == loads(response_json.v.s)
                  IN  IF nested.ok
                      THEN Return(nested.v)
                      ELSE Return(ErrorRecord(PyStr(InvalidNestedJson)))
             ELSE IF response_json.v.t = "dict"
             THEN Return(response_json.v)
             ELSE Raise("AttributeError")
    ELSE Return(HttpError(status_code, text))

\* handle_response looking for "response" in the decoded nested text too
handle_response_get_nested(status_code, text) ==
    IF status_code = HTTP_OK
    THEN LET response_json == loads(text)
         IN  IF ~response_json.ok
             THEN Return(ErrorRecord(PyStr(InvalidJson)))
             ELSE IF response_json.v.t = "str"
             THEN LET nested == loads(response_json.v.s)
                  IN  IF ~nested.ok
                      THEN Return(ErrorRecord(PyStr(InvalidNestedJson)))
                      ELSE IF nested.v.t = "dict"
                      THEN Return(DictGet(nested.v, KeyResponse, nested.v))
                      ELSE Return(nested.v)
             ELSE IF response_json.v.t = "dict"
             THEN Return(DictGet(response_json.v, KeyResponse, response_json.v))
             ELSE Raise("AttributeError")
    ELSE Return(HttpError(status_code, text))

\* handle_response with one except clause around both decodings: a body
\* that is no JSON gets the message of the nested text
handle_response_one_except(status_code, text) ==
    IF status_code = HTTP_OK
    THEN LET response_json == loads(text)
         IN  IF ~response_json.ok
             THEN Return(ErrorRecord(PyStr(InvalidNestedJson)))
             ELSE IF response_json.v.t = "str"
             THEN LET nested == loads(response_json.v.s)
                  IN  IF nested.ok
                      THEN Return(nested.v)
                      ELSE Return(ErrorRecord(PyStr(InvalidNestedJson)))
             ELSE IF response_json.v.t = "dict"
             THEN Return(DictGet(response_json.v, KeyResponse, response_json.v))
             ELSE Raise("AttributeError")
    ELSE Return(HttpError(status_code, text))

\* handle_response, on the status code and the body text of the response
handle_response(status_code, text) ==
    IF status_code = HTTP_OK
    THEN LET response_json == loads(text)
         IN  IF ~response_json.ok
             THEN Return(ErrorRecord(PyStr(InvalidJson)))
             ELSE IF response_json.v.t = "str"
             THEN LET nested == loads(response_json.v.s)
                  IN  IF nested.ok
                      THEN Return(nested.v)
                      ELSE Return(ErrorRecord(PyStr(InvalidNestedJson)))
             ELSE IF response_json.v.t = "dict"
             THEN Return(DictGet(response_json.v, KeyResponse, response_json.v))
             ELSE \* list, int, bool and None have no get
                  Raise("AttributeError")
    ELSE Return(HttpError(status_code, text))

\* json.loads(x) as the interpreters call it on the value send_request gave
json_loads(x) ==
    IF x.t # "str" THEN Raise("TypeError")
    ELSE LET r == loads(x.s)
         IN  IF r.ok THEN Return(r.v) ELSE Raise("JSONDecodeError")

(***************************************************************************)
(* Ticket totals                                                           *)
(***************************************************************************)
KeyQuantity   == <<"quantity">>
KeyPriceUnit  == <<"price_unit">>
KeyPriceTotal == <<"price_total">>

IsNumber(x) == x.t \in {"int", "bool"}

\* the values a for loop over x visits; <<>> with ok FALSE when x is not
\* iterable
IterItems(x) ==
    CASE x.t = "list" -> [ok |-> TRUE, xs |-> x.xs]
      [] x.t = "dict" -> [ok |-> TRUE, xs |-> [i \in 1..Len(x.ks) |-> PyStr(x.ks[i])]]
      [] x.t = "str"  -> [ok |-> TRUE, xs |-> [i \in 1..Len(x.s) |-> PyStr(<<x.s[i]>>)]]
      [] OTHER        -> [ok |-> FALSE, xs |-> <<>>]

RECURSIVE TotalsLoop(_, _, _, _)
\* the loop of calculate_totals from item i on: done are the items already
\* annotated, total_general the running total
TotalsLoop(products, i, done, total_general) ==
    IF i > Len(products)
    THEN [raised |-> "", products |-> done, total_general |-> total_general]
    ELSE LET product == products[i]
         IN  IF product.t # "dict"
             THEN [raised |-> "TypeError", products |-> done, total_general |-> total_general]
             ELSE IF ~HasKey(product, KeyQuantity) \/ ~HasKey(product, KeyPriceUnit)
             THEN [raised |-> "KeyError", products |-> done, total_general |-> total_general]
             ELSE LET quantity   == DictItem(product, KeyQuantity)
                      price_unit == DictItem(product, KeyPriceUnit)
                  IN  IF ~(IsNumber(quantity) /\ IsNumber(price_unit))
                      THEN [raised |-> "TypeError", products |-> done,
                            total_general |-> total_general]
                      ELSE LET price_total == quantity.n * price_unit.n
                           IN  TotalsLoop(products, i + 1,
                                   Append(done, DictSet(product, KeyPriceTotal,
                                                        PyInt(price_total))),
                                   total_general + price_total)

\* calculate_totals(json_data): the exception raised, if any, the products
\* printed and the grand total printed
calculate_totals(json_data) ==
    LET none == [raised |-> "", products |-> <<>>, total_general |-> 0]
    IN  IF json_data.t # "dict"
        THEN [none EXCEPT !.raised = "AttributeError"]
        ELSE IF json_data.ks = <<>>
        THEN [none EXCEPT !.raised = "IndexError"]
        ELSE LET key      == json_data.ks[1]
                 products == IterItems(DictItem(json_data, key))
             IN  IF ~products.ok
                 THEN [none EXCEPT !.raised = "TypeError"]
                 ELSE TotalsLoop(products.xs, 1, <<>>, 0)

(***************************************************************************)
(* Inputs: the sizes of the image file, and the replies of the endpoint.   *)
(***************************************************************************)
MaxSmall == 3
Margin   == 2
MaxItems == 2

Dimensions ==
    (1..MaxSmall)
    \cup ((max_pixels[1] - Margin)..(max_pixels[1] + Margin))
    \cup {2 * max_pixels[1], 2 * max_pixels[1] + 1, 5000}
ImageSizes == Dimensions \X Dimensions

KeyName      == <<"name">>
KeyProductos == <<"productos">>
KeyCount     == <<"count">>
KeyTotal     == <<"total">>
KeyModel     == <<"model">>
KeyDone      == <<"done">>
Quantities   == {1, 2}
UnitPrices   == {3, 10}

Item(q, p) == PyDict(<<KeyQuantity, KeyPriceUnit>>, <<q, p>>)
NamedItem(q, p) ==
    PyDict(<<KeyName, KeyQuantity, KeyPriceUnit>>, <<PyStr(<<"pan">>), q, p>>)

Items ==
    {Item(PyInt(q), PyInt(p)) : q \in Quantities, p \in UnitPrices}
    \cup {NamedItem(PyInt(2), PyInt(3))}

\* items the prompt does not ask for: a total already present, a boolean
\* quantity, a quantity given as text, a price missing, a bare number
OddItems ==
    { PyDict(<<KeyQuantity, KeyPriceTotal, KeyPriceUnit>>,
             <<PyInt(2), PyInt(99), PyInt(3)>>),
      Item(PyBool(TRUE), PyInt(10)),
      Item(PyStr(<<"2">>), PyInt(3)),
      PyDict(<<KeyQuantity>>, <<PyInt(1)>>),
      PyInt(7) }

ItemLists ==
    UNION {[1..n -> Items] : n \in 0..MaxItems}
    \cup {<<x>> : x \in OddItems}
    \cup {<<Item(PyInt(1), PyInt(3)), x>> : x \in OddItems}

\* what the model may answer
Answers ==
    {PyList(l) : l \in ItemLists}
    \cup {PyDict(<<KeyProductos>>, <<PyList(l)>>) : l \in ItemLists}
    \cup { PyInt(5), PyInt(12), PyBool(TRUE), PyNone, EmptyDict,
           PyStr(<<"cinco">>),
           PyDict(<<KeyCount>>, <<PyInt(5)>>),
           PyDict(<<KeyResponse>>, <<PyInt(4)>>),
           PyDict(<<KeyProductos>>, <<PyInt(4)>>),
           PyDict(<<KeyProductos>>, <<EmptyDict>>),
           PyDict(<<KeyProductos>>, <<PyStr(<<"pan">>)>>),
           PyDict(<<KeyTotal, KeyProductos>>,
                  <<PyInt(3), PyList(<<Item(PyInt(1), PyInt(3))>>)>>) }

\* the reply of the endpoint: the answer under the key "response"
Envelope(x) ==
    PyDict(<<KeyModel, KeyResponse, KeyDone>>,
           <<PyStr(<<"gemma3:12b">>), x, PyBool(TRUE)>>)

NotJson == {<<>>, <<"not", SPACE, "json">>, <<"not", SPACE, "found">>}

SampleBody == dumps(Envelope(PyStr(dumps(PyList(<<PyDict(<<<<"a">>>>, <<PyInt(1)>>)>>)))))
Truncations == {SubSeq(SampleBody, 1, n) : n \in 0..(Len(SampleBody) - 1)}

Bodies ==
    {dumps(Envelope(PyStr(dumps(a)))) : a \in Answers}
    \cup {dumps(Envelope(a)) : a \in Answers}
    \cup {dumps(PyStr(dumps(a))) : a \in Answers}
    \cup {dumps(a) : a \in Answers}
    \cup {dumps(PyStr(b)) : b \in NotJson \cup Truncations}
    \cup {dumps(Envelope(PyStr(b))) : b \in NotJson}
    \cup NotJson \cup Truncations
    \cup { SampleBody,
           <<"{", QUOTE, "response", QUOTE, ":", "4", "}">>,
           <<SPACE, "[", "1", ",", "0", "1", "]">>,
           <<"[", "1", ",", "]">> }

Statuses == {HTTP_OK, 404, 500}

NoSize == <<0, 0>>

(***************************************************************************)
(* The program: process_cats, then process_ticket (lines 157-160).         *)
(***************************************************************************)
VARIABLES
    pc,            \* the step the program is at
    task,          \* the interpreter running: "cats" or "ticket"
    size,          \* the size of the image file opened
    image,         \* the size of the image resize_image returned
    status_code,   \* the reply: its status
    text,          \* the reply: its body
    response,      \* what handle_response returned
    printed,       \* process_cats: the value printed
    products,      \* calculate_totals: the products printed
    total_general, \* calculate_totals: the grand total printed
    raised         \* the uncaught exception and the function that raised it

vars == <<pc, task, size, image, status_code, text, response, printed,
          products, total_general, raised>>

NoException == <<"", "">>

Init ==
    /\ pc = "send_request"
    /\ task = "cats"
    /\ size = NoSize
    /\ image = NoSize
    /\ status_code = 0
    /\ text = <<>>
    /\ response = PyNone
    /\ printed = PyNone
    /\ products = <<>>
    /\ total_general = 0
    /\ raised = NoException

\* encode_image, lines 41-42: the image is opened and resized
EncodeImage ==
    /\ pc = "send_request"
    /\ \E s \in ImageSizes :
          /\ size' = s
          /\ image' \in resize_image(s)
    /\ pc' = "post"
    /\ UNCHANGED <<task, status_code, text, response, printed, products,
                   total_general, raised>>

\* encode_image, lines 43-47, and send_request, lines 59-72: the image is
\* saved, encoded and closed, the request is posted, the endpoint replies
Post ==
    /\ pc = "post"
    /\ status_code' \in Statuses
    /\ text' \in Bodies
    /\ size' = NoSize
    /\ image' = NoSize
    /\ pc' = "handle_response"
    /\ UNCHANGED <<task, response, printed, products, total_general, raised>>

\* send_request, line 74: handle_response, and the return to the interpreter
HandleResponse ==
    /\ pc = "handle_response"
    /\ LET r == handle_response(status_code, text)
       IN  IF r.raised # ""
           THEN /\ raised' = <<r.raised, "handle_response">>
                /\ pc' = "fault"
                /\ UNCHANGED response
           ELSE /\ response' = r.value
                /\ pc' = "interpret"
                /\ UNCHANGED raised
    /\ UNCHANGED <<task, size, image, status_code, text, printed, products,
                   total_general>>

\* process_cats, lines 107-111
ProcessCats ==
    /\ pc = "interpret"
    /\ task = "cats"
    /\ LET r == json_loads(response)
       IN  IF r.raised # ""
           THEN /\ raised' = <<r.raised, "process_cats">>
                /\ pc' = "fault"
                /\ UNCHANGED printed
           ELSE /\ printed' = r.value
                /\ pc' = "return"
                /\ UNCHANGED raised
    /\ UNCHANGED <<task, size, image, status_code, text, response, products,
                   total_general>>

\* process_ticket, lines 131-135, with calculate_totals
ProcessTicket ==
    /\ pc = "interpret"
    /\ task = "ticket"
    /\ LET r == json_loads(response)
           c == calculate_totals(r.value)
       IN  IF r.raised # ""
           THEN /\ raised' = <<r.raised, "process_ticket">>
                /\ pc' = "fault"
                /\ UNCHANGED <<products, total_general>>
           ELSE IF c.raised # ""
           THEN /\ raised' = <<c.raised, "calculate_totals">>
                /\ pc' = "fault"
                /\ UNCHANGED <<products, total_general>>
           ELSE /\ products' = c.products
                /\ total_general' = c.total_general
                /\ pc' = "return"
                /\ UNCHANGED raised
    /\ UNCHANGED <<task, size, image, status_code, text, response, printed>>

\* the main block, lines 159-160: process_cats returned, process_ticket starts
Main ==
    /\ pc = "return"
    /\ task = "cats"
    /\ task' = "ticket"
    /\ pc' = "send_request"
    /\ status_code' = 0
    /\ text' = <<>>
    /\ response' = PyNone
    /\ printed' = PyNone
    /\ UNCHANGED <<size, image, products, total_general, raised>>

Next ==
    \/ EncodeImage
    \/ Post
    \/ HandleResponse
    \/ ProcessCats
    \/ ProcessTicket
    \/ Main

Spec == Init /\ [][Next]_vars

(***************************************************************************)
(* Properties                                                              *)
(***************************************************************************)
\* handle_response has run on the reply in status_code and text
AfterHandle == pc \in {"interpret", "return", "fault"}
\* ... and has returned a value, now in response
Returned == AfterHandle /\ raised[2] # "handle_response"
\* the interpreter has run too
AfterInterpret == pc \in {"return", "fault"} /\ raised[2] # "handle_response"

\* the body of the reply, decoded
Body == loads(text)
BodyIsDict == status_code = HTTP_OK /\ Body.ok /\ Body.v.t = "dict"
BodyIsStr  == status_code = HTTP_OK /\ Body.ok /\ Body.v.t = "str"
\* the reply is an object with a text under "response"
EncodedEnvelope ==
    /\ BodyIsDict
    /\ \E i \in 1..Len(Body.v.ks) :
          Body.v.ks[i] = KeyResponse /\ Body.v.xs[i].t = "str"
EnvelopeText == Body.v.xs[CHOOSE i \in 1..Len(Body.v.ks) : Body.v.ks[i] = KeyResponse].s

\* C1, as the claim states it: a status-200 reply whose "response" field
\* holds a JSON-encoded text makes handle_response return the parsed inner
\* value, not the text.
C1_ReturnsParsedInnerValue ==
    (AfterHandle /\ EncodedEnvelope /\ loads(EnvelopeText).ok)
        => (Returned /\ response = loads(EnvelopeText).v)

\* C1, amended: a status-200 reply whose "response" field holds a text makes
\* handle_response return that text as it is, still encoded, whether or not
\* it parses as JSON.
C1_ReturnsEncodedText ==
    (AfterHandle /\ EncodedEnvelope)
        => (Returned /\ response = PyStr(EnvelopeText))

C1_Witness ==
    /\ Returned
    /\ text = SampleBody
    /\ status_code = HTTP_OK
    /\ loads(EnvelopeText).ok
    /\ loads(EnvelopeText).v.t = "list"
    /\ response.t = "str"

\* C2, as the claim states it: whatever the status and the body,
\* handle_response returns a value and never raises.
C2_NeverRaises == ~(pc = "fault" /\ raised[2] = "handle_response")

\* C3: a reply whose status is not 200 makes handle_response return the
\* record {error: status, details: body text}, the body neither parsed nor
\* unwrapped.
C3_ErrorRecordOfStatus ==
    (AfterHandle /\ status_code # HTTP_OK)
        => /\ Returned
           /\ response.t = "dict"
           /\ response.ks = <<KeyError, KeyDetails>>
           /\ response.xs = <<PyInt(status_code), PyStr(text)>>

C3_Witness ==
    /\ Returned
    /\ status_code = 404
    /\ Body.ok
    /\ Body.v.t = "dict"
    /\ HasKey(Body.v, KeyResponse)
    /\ response.xs[2] = PyStr(text)

\* C4: a status-200 reply whose body parses to an object makes
\* handle_response return the value under "response" when the object has
\* that key, and the whole object when it has not.
C4_ValueUnderResponse ==
    (AfterHandle /\ BodyIsDict)
        => /\ Returned
           /\ \/ \E i \in 1..Len(Body.v.ks) :
                    Body.v.ks[i] = KeyResponse /\ response = Body.v.xs[i]
              \/ /\ \A i \in 1..Len(Body.v.ks) : Body.v.ks[i] # KeyResponse
                 /\ response = Body.v

C4_Witness ==
    /\ Returned
    /\ status_code = HTTP_OK
    /\ text = <<"{", QUOTE, "response", QUOTE, ":", "4", "}">>
    /\ response = PyInt(4)

\* C5: a status-200 reply whose body parses to a JSON string makes
\* handle_response return the decoded inner value as it is (an object with a
\* key "response" is not unwrapped), or, when the inner text does not parse,
\* the error record of the nested text.
C5_NestedText ==
    (AfterHandle /\ BodyIsStr)
        => /\ Returned
           /\ IF loads(Body.v.s).ok
              THEN response = loads(Body.v.s).v
              ELSE /\ response.t = "dict"
                   /\ response.ks = <<KeyError>>
                   /\ response.xs = <<PyStr(InvalidNestedJson)>>

C5_Witness ==
    /\ Returned
    /\ BodyIsStr
    /\ loads(Body.v.s).ok
    /\ response.t = "dict"
    /\ HasKey(response, KeyResponse)

\* C6: a status-200 reply whose body is not JSON makes handle_response
\* return the record {error: "Respuesta JSON no valida"}, which differs from
\* the record of the nested text and has no details field.
C6_InvalidJson ==
    (AfterHandle /\ status_code = HTTP_OK /\ ~Body.ok)
        => /\ Returned
           /\ response.t = "dict"
           /\ response.ks = <<KeyError>>
           /\ response.xs = <<PyStr(InvalidJson)>>
           /\ response.xs # <<PyStr(InvalidNestedJson)>>
           /\ \A i \in 1..Len(response.ks) : response.ks[i] # KeyDetails

C6_Witness ==
    /\ Returned
    /\ status_code = HTTP_OK
    /\ text = <<"not", SPACE, "json">>
    /\ response.xs = <<PyStr(InvalidJson)>>

\* the image has been opened and resize_image has returned
Resized == pc = "post"
TooLarge == size[1] > 1120 \/ size[2] > 1120

\* C7: an image larger than 1120 in width or in height comes out with both
\* dimensions in 1..1120, the larger one set to 1120 and the other one less
\* than a pixel away from the proportional value.
C7_FitsTheBox ==
    (Resized /\ TooLarge)
        => /\ image[1] >= 1 /\ image[1] <= 1120
           /\ image[2] >= 1 /\ image[2] <= 1120
           /\ (size[1] >= size[2]) => image[1] = 1120
           /\ (size[2] >= size[1]) => image[2] = 1120
           /\ Abs(image[1] * size[2] - size[1] * image[2])
                 < Max(size[1], size[2])

C7_Witness ==
    /\ Resized
    /\ size = <<2241, 1121>>
    /\ image = <<1120, 560>>

\* C8: an image within 1120 by 1120, the bound included, keeps its size.
C8_Unchanged == (Resized /\ ~TooLarge) => image = size

C8_Witness ==
    /\ Resized
    /\ size = <<1120, 3>>
    /\ image = size

(***************************************************************************)
(* Ticket totals                                                           *)
(***************************************************************************)
\* the JSON process_ticket decodes from the value send_request returned
TicketDecoded == task = "ticket" /\ AfterInterpret /\ response.t = "str" /\ loads(response.s).ok
Ticket == loads(response.s).v

Keys(d) == {d.ks[i] : i \in 1..Len(d.ks)}

\* x is a list of line items: records with a numeric quantity and price_unit
IsLineItems(x) ==
    /\ x.t = "list"
    /\ \A i \in 1..Len(x.xs) :
          /\ x.xs[i].t = "dict"
          /\ {KeyQuantity, KeyPriceUnit} \subseteq Keys(x.xs[i])
          /\ IsNumber(DictItem(x.xs[i], KeyQuantity))
          /\ IsNumber(DictItem(x.xs[i], KeyPriceUnit))

RECURSIVE SumOfTotals(_)
SumOfTotals(items) ==
    IF items = <<>> THEN 0
    ELSE DictItem(Head(items), KeyPriceTotal).n + SumOfTotals(Tail(items))

\* out is the list items with its totals, and total the sum of the totals
Totalled(items, out, total) ==
    /\ Len(out) = Len(items)
    /\ \A i \in 1..Len(items) :
          /\ out[i].t = "dict"
          /\ Keys(out[i]) = Keys(items[i]) \cup {KeyPriceTotal}
          /\ DictItem(out[i], KeyPriceTotal) =
                PyInt(DictItem(items[i], KeyQuantity).n
                      * DictItem(items[i], KeyPriceUnit).n)
          /\ \A k \in Keys(items[i]) \ {KeyPriceTotal} :
                DictItem(out[i], k) = DictItem(items[i], k)
    /\ total = SumOfTotals(out)

\* C9, as the claim states it: given the array of line items the prompt
\* asks for, every item gets price_total = quantity * price_unit, nothing
\* else changes, and the grand total is the sum of the totals.
C9_TotalsOfAnArray ==
    (TicketDecoded /\ IsLineItems(Ticket))
        => /\ pc = "return"
           /\ Totalled(Ticket.xs, products, total_general)

\* C9, for the input calculate_totals is written for: given an object whose
\* first key holds the list of line items, every item gets price_total =
\* quantity * price_unit, nothing else changes, and the grand total is the
\* sum of the totals (0 for no items).
C9_TotalsOfTheFirstKey ==
    (TicketDecoded /\ Ticket.t = "dict" /\ Ticket.ks # <<>>
                   /\ IsLineItems(Ticket.xs[1]))
        => /\ pc = "return"
           /\ Totalled(Ticket.xs[1].xs, products, total_general)

C9_TotalsOfTheFirstKey_Witness ==
    /\ TicketDecoded
    /\ pc = "return"
    /\ Ticket = PyDict(<<KeyProductos>>,
                       <<PyList(<<NamedItem(PyInt(2), PyInt(3)),
                                  Item(PyInt(1), PyInt(10))>>)>>)
    /\ Len(products) = 2
    /\ total_general = 16

\* send_request returned an error record: the status was not 200, the body
\* was no JSON, or it was a JSON string holding no JSON
ErrorReturned ==
    /\ Returned
    /\ \/ status_code # HTTP_OK
       \/ ~Body.ok
       \/ Body.v.t = "str" /\ ~loads(Body.v.s).ok

\* C10, as the claim states it: when send_request returns an error record,
\* process_cats and process_ticket complete without raising, and no totals
\* are computed.
C10_InterpretersSurviveErrors ==
    (ErrorReturned /\ AfterInterpret)
        => /\ pc = "return"
           /\ products = <<>>
           /\ total_general = 0
=============================================================================
